---- MODULE Spec2Model ----
(***************************************************************************)
(* Model of src/main.rs: the MainState motion controller (pos_x, offset_x, *)
(* last_update), its update and key_down_event handlers driven by the      *)
(* host event loop, and the generic ModuloSigned::modulo helper.           *)
(*                                                                         *)
(* Numbers: pos_x and offset_x are f32 in the source.  Every value the     *)
(* program computes is an integer of magnitude below 2^24, which f32       *)
(* represents exactly, so they are modelled as integers.  Time is the      *)
(* monotonic clock in milliseconds since MainState::new.                   *)
(***************************************************************************)
EXTENDS Integers, Sequences, FiniteSets, TLC

\* ---------------------------------------------------------------- bounds
\* Last clock reading (ms) at which the host still calls update.
MaxTime == 700
\* Pure-function inputs: value ranges over -MaxV..MaxV, n over 1..MaxN.
MaxV == 12
MaxN == 5

\* ------------------------------------------------------------- constants
SCREEN_SIZE == <<800, 400>>
UPDATES_PER_SECOND == 10
\* (1.0 / UPDATES_PER_SECOND * 1000.0) as u64
MILLIS_PER_UPDATE == 1000 \div UPDATES_PER_SECOND

\* Key codes the host can deliver: the three the handler matches and two
\* representatives of the `_` arm.
KeyCodes == {"Escape", "Left", "Right", "Up", "Space"}

\* Time the host lets pass between two calls of update (ms): the same
\* instant, less than an interval, one millisecond short of it, exactly one
\* interval, and more than two intervals.
Deltas == {0, 60, 99, 100, 230}

VARIABLES
    pos_x,        \* MainState.pos_x
    offset_x,     \* MainState.offset_x
    last_update,  \* MainState.last_update
    clock,        \* latest reading of Instant::now()
    quit,         \* TRUE once event::quit(ctx) was called
    op,           \* handler that ran last: "new", "update", "key_down_event"
    key,          \* keycode of the last key_down_event ("" before any)
    old,          \* MainState and quit flag as they were before that handler
    value, value2, n,   \* inputs of the modulo under test
    result, result2,    \* its outputs
    fpc                 \* "idle" | "input" | "done"

vars == <<pos_x, offset_x, last_update, clock, quit, op, key, old,
          value, value2, n, result, result2, fpc>>
motionVars == <<pos_x, offset_x, last_update, clock, quit, op, key, old>>
fnVars == <<value, value2, n, result, result2, fpc>>

\* ------------------------------------------------------ pure functions
Abs(x) == IF x < 0 THEN -x ELSE x

\* Rust's `%`: truncating remainder, the result has the sign of the dividend.
Rem(x, m) == IF x >= 0 THEN x % m ELSE -((-x) % m)

modulo_raw(x, m) == Rem(x, m)
modulo_single(x, m) == Rem(x + m, m)
\* (self.clone() % n.clone() + n.clone()) % n
modulo(x, m) == Rem(Rem(x, m) + m, m)

\* The snapshot key_down_event and update leave behind for the properties.
Snapshot == [pos_x |-> pos_x, offset_x |-> offset_x,
             last_update |-> last_update, quit |-> quit]

\* ------------------------------------------------------------ MainState
\* MainState::new: pos_x 0.0, offset_x 10.0, last_update = Instant::now().
new ==
    /\ pos_x = 0
    /\ offset_x = 10
    /\ last_update = 0
    /\ clock = 0
    /\ quit = FALSE
    /\ op = "new"
    /\ key = ""
    /\ old = [pos_x |-> 0, offset_x |-> 10, last_update |-> 0, quit |-> FALSE]

update_stamp_always(now) ==
    /\ clock' = now
    /\ pos_x' = IF now - last_update >= MILLIS_PER_UPDATE
                THEN modulo(pos_x, SCREEN_SIZE[1]) + offset_x ELSE pos_x
    /\ last_update' = now
    /\ op' = "update"
    /\ old' = Snapshot
    /\ UNCHANGED <<offset_x, quit, key>>

update_strict_gate(now) ==
    /\ clock' = now
    /\ IF now - last_update > MILLIS_PER_UPDATE
       THEN /\ pos_x' = modulo(pos_x, SCREEN_SIZE[1]) + offset_x
            /\ last_update' = now
       ELSE UNCHANGED <<pos_x, last_update>>
    /\ op' = "update"
    /\ old' = Snapshot
    /\ UNCHANGED <<offset_x, quit, key>>

update_accumulate(now) ==
    /\ clock' = now
    /\ IF now - last_update >= MILLIS_PER_UPDATE
       THEN /\ pos_x' = modulo(pos_x, SCREEN_SIZE[1]) + offset_x
            /\ last_update' = last_update + MILLIS_PER_UPDATE
       ELSE UNCHANGED <<pos_x, last_update>>
    /\ op' = "update"
    /\ old' = Snapshot
    /\ UNCHANGED <<offset_x, quit, key>>

update_wrap_after(now) ==
    /\ clock' = now
    /\ IF now - last_update >= MILLIS_PER_UPDATE
       THEN /\ pos_x' = modulo(pos_x + offset_x, SCREEN_SIZE[1])
            /\ last_update' = now
       ELSE UNCHANGED <<pos_x, last_update>>
    /\ op' = "update"
    /\ old' = Snapshot
    /\ UNCHANGED <<offset_x, quit, key>>

update_no_wrap(now) ==
    /\ clock' = now
    /\ IF now - last_update >= MILLIS_PER_UPDATE
       THEN /\ pos_x' = pos_x + offset_x
            /\ last_update' = now
       ELSE UNCHANGED <<pos_x, last_update>>
    /\ op' = "update"
    /\ old' = Snapshot
    /\ UNCHANGED <<offset_x, quit, key>>

\* EventHandler::update, with `now` the value Instant::now() returns.
update(now) ==
    /\ clock' = now
    /\ IF now - last_update >= MILLIS_PER_UPDATE
       THEN /\ pos_x' = modulo(pos_x, SCREEN_SIZE[1]) + offset_x
            /\ last_update' = now
       ELSE UNCHANGED <<pos_x, last_update>>
    /\ op' = "update"
    /\ old' = Snapshot
    /\ UNCHANGED <<offset_x, quit, key>>

key_down_event_toggle(keycode) ==
    /\ CASE keycode = "Escape" -> quit' = TRUE /\ UNCHANGED offset_x
         [] keycode = "Left"   -> offset_x' = -offset_x /\ UNCHANGED quit
         [] keycode = "Right"  -> offset_x' = Abs(offset_x) /\ UNCHANGED quit
         [] OTHER              -> UNCHANGED <<offset_x, quit>>
    /\ op' = "key_down_event"
    /\ key' = keycode
    /\ old' = Snapshot
    /\ UNCHANGED <<pos_x, last_update, clock>>

key_down_event_swapped(keycode) ==
    /\ CASE keycode = "Escape" -> quit' = TRUE /\ UNCHANGED offset_x
         [] keycode = "Left"   -> offset_x' = Abs(offset_x) /\ UNCHANGED quit
         [] keycode = "Right"  -> offset_x' = -Abs(offset_x) /\ UNCHANGED quit
         [] OTHER              -> UNCHANGED <<offset_x, quit>>
    /\ op' = "key_down_event"
    /\ key' = keycode
    /\ old' = Snapshot
    /\ UNCHANGED <<pos_x, last_update, clock>>

\* EventHandler::key_down_event: the match on keycode.
key_down_event(keycode) ==
    /\ CASE keycode = "Escape" -> quit' = TRUE /\ UNCHANGED offset_x
         [] keycode = "Left"   -> offset_x' = -Abs(offset_x) /\ UNCHANGED quit
         [] keycode = "Right"  -> offset_x' = Abs(offset_x) /\ UNCHANGED quit
         [] OTHER              -> UNCHANGED <<offset_x, quit>>
    /\ op' = "key_down_event"
    /\ key' = keycode
    /\ old' = Snapshot
    /\ UNCHANGED <<pos_x, last_update, clock>>

\* --------------------------------------------------------- specification
\* The host loop (event::run) calls update once per frame, at a clock
\* reading not earlier than the previous one, and key_down_event per key.
Tick ==
    \E d \in Deltas :
        /\ clock + d <= MaxTime
        /\ update(clock + d)
        /\ UNCHANGED fnVars

KeyDown ==
    \E keycode \in KeyCodes :
        /\ key_down_event(keycode)
        /\ UNCHANGED fnVars

Init ==
    /\ new
    /\ value = 0 /\ value2 = 0 /\ n = 1 /\ result = 0 /\ result2 = 0
    /\ fpc = "idle"

Next == Tick \/ KeyDown

Spec == Init /\ [][Next]_vars

\* ------------------------------------- specification of modulo alone
FnInit ==
    /\ new
    /\ value \in -MaxV..MaxV
    /\ value2 \in -MaxV..MaxV
    /\ n \in 1..MaxN
    /\ result = 0 /\ result2 = 0
    /\ fpc = "input"

Apply ==
    /\ fpc = "input"
    /\ result' = modulo(value, n)
    /\ result2' = modulo(value2, n)
    /\ fpc' = "done"
    /\ UNCHANGED <<value, value2, n>>
    /\ UNCHANGED motionVars

FnNext == Apply

SpecFn == FnInit /\ [][FnNext]_vars

\* ------------------------------------------------------------ properties
\* The last handler was an update that passed the time gate.
Accepted == op = "update" /\ clock - old.last_update >= MILLIS_PER_UPDATE
\* The last handler was an update that did not pass it.
Rejected == op = "update" /\ clock - old.last_update < MILLIS_PER_UPDATE

C2_ModuloRange ==
    /\ fpc = "done" => (0 <= result /\ result < n)
    /\ modulo(-5, SCREEN_SIZE[1]) = 795
C2_Witness ==
    /\ fpc = "done"
    /\ value < 0 /\ Rem(value, n) < 0
    /\ result > 0 /\ result = Rem(value, n) + n

\* C3: values that differ by a multiple of n have the same modulo(., n),
\* opposite signs included.
C3_ModuloCongruent ==
    (fpc = "done" /\ (value - value2) % n = 0) => result = result2
C3_Witness ==
    /\ fpc = "done"
    /\ value < 0 /\ value2 > 0
    /\ (value - value2) % n = 0
    /\ result = result2 /\ result > 0

\* C4: an update called less than MILLIS_PER_UPDATE after last_update
\* leaves pos_x, last_update and offset_x as they were.
C4_EarlyTickNoOp ==
    Rejected => /\ pos_x = old.pos_x
                /\ last_update = old.last_update
                /\ offset_x = old.offset_x
C4_Witness ==
    /\ Rejected
    /\ clock - old.last_update = MILLIS_PER_UPDATE - 1
    /\ last_update = old.last_update
    /\ last_update > 0

\* C5: an update called MILLIS_PER_UPDATE or more after last_update (exactly
\* MILLIS_PER_UPDATE included) sets last_update to now and pos_x to
\* modulo(old pos_x, 800) + offset_x, and leaves offset_x unchanged.
C5_DueTickAdvances ==
    Accepted => /\ last_update = clock
                /\ pos_x = modulo(old.pos_x, SCREEN_SIZE[1]) + old.offset_x
                /\ offset_x = old.offset_x
C5_Witness ==
    /\ Accepted
    /\ clock - old.last_update = MILLIS_PER_UPDATE
    /\ last_update = clock
    /\ pos_x = old.pos_x + old.offset_x

\* C6: pos_x and last_update change at most once per interval: an update
\* that changes either comes at least MILLIS_PER_UPDATE after the previous
\* one that did, advances pos_x by one step however many intervals have
\* passed, and sets last_update to now rather than last_update + interval.
C6_FixedRateGate ==
    (op = "update" /\ (last_update # old.last_update \/ pos_x # old.pos_x))
        => /\ last_update - old.last_update >= MILLIS_PER_UPDATE
           /\ last_update = clock
           /\ pos_x = modulo(old.pos_x, SCREEN_SIZE[1]) + old.offset_x
C6_Witness ==
    /\ op = "update"
    /\ old.last_update > 0
    /\ clock - old.last_update >= 2 * MILLIS_PER_UPDATE
    /\ last_update = clock
    /\ last_update # old.last_update + MILLIS_PER_UPDATE
    /\ pos_x = old.pos_x + old.offset_x

\* C7: Left sets offset_x to -|offset_x| and Right to +|offset_x|, and the
\* same direction key pressed a second time leaves offset_x as it is.
C7_SetDirectionIdempotent ==
    [][ /\ (op' = "key_down_event" /\ key' = "Left")
            => offset_x' = -Abs(offset_x)
        /\ (op' = "key_down_event" /\ key' = "Right")
            => offset_x' = Abs(offset_x)
        /\ (op = "key_down_event" /\ op' = "key_down_event"
              /\ key' = key /\ key \in {"Left", "Right"})
            => offset_x' = offset_x ]_vars
C7_Witness ==
    /\ op = "key_down_event" /\ key = "Left"
    /\ old.offset_x < 0
    /\ offset_x = old.offset_x

\* C8: Escape raises quit and leaves MainState unchanged, Left and Right set
\* the direction, any other key changes nothing, and no key changes pos_x
\* or last_update.
C8_KeyDispatch ==
    op = "key_down_event" =>
        /\ pos_x = old.pos_x
        /\ last_update = old.last_update
        /\ key = "Escape" => (quit /\ offset_x = old.offset_x)
        /\ key = "Left" => (offset_x = -Abs(old.offset_x) /\ quit = old.quit)
        /\ key = "Right" => (offset_x = Abs(old.offset_x) /\ quit = old.quit)
        /\ key \notin {"Escape", "Left", "Right"}
             => (offset_x = old.offset_x /\ quit = old.quit)
C8_Witness ==
    /\ op = "key_down_event" /\ key = "Right"
    /\ old.offset_x < 0 /\ offset_x > 0
    /\ ~quit
    /\ pos_x < 0

\* C9: pos_x is not wrapped after the step is added, so it can leave
\* [0, 800), but never reaches 800 + |offset_x| (795 with step 10 becomes
\* 805), and the next due update wraps it into [0, 800) before adding.
C9_DriftBounded ==
    /\ pos_x < SCREEN_SIZE[1] + Abs(offset_x)
    /\ Accepted =>
         /\ 0 <= pos_x - old.offset_x
         /\ pos_x - old.offset_x < SCREEN_SIZE[1]
         /\ pos_x - old.offset_x = modulo(old.pos_x, SCREEN_SIZE[1])
    /\ modulo(795, SCREEN_SIZE[1]) + 10 = 805
C9_Witness ==
    /\ Accepted
    /\ old.pos_x >= SCREEN_SIZE[1]
    /\ 0 <= pos_x /\ pos_x < SCREEN_SIZE[1]

\* C10: offset_x is +10 or -10, pos_x is a multiple of 10 with
\* -10 <= pos_x <= 800, and both -10 and 800 are reached.
C10_ReachableRange ==
    /\ offset_x \in {10, -10}
    /\ pos_x % 10 = 0
    /\ -10 <= pos_x /\ pos_x <= SCREEN_SIZE[1]
C10_Witness ==
    /\ Accepted
    /\ old.pos_x = -10
    /\ pos_x = SCREEN_SIZE[1]
====
